---- MODULE Spec2Model ----
(***************************************************************************)
(* Model of the browser client of the Android Converter simulator          *)
(* (src/static/script.js): the WebSocket connection, the handlers of the   *)
(* live-update events and the dashboard they draw.  The server is not part *)
(* of the sources; the definitions named Srv* model it from the            *)
(* specification's description of the session state machine.               *)
(***************************************************************************)
EXTENDS Integers, Sequences, FiniteSets, TLC

VARIABLES
    wsState,       \* ws.readyState: CONNECTING, OPEN, CLOSING, CLOSED
    timers,        \* the setTimeout(connect, 2000) timers that are pending
    stale,         \* sockets not yet closed that ws no longer refers to
    page,          \* the script's globals and the DOM it writes
    twin,          \* the page of a second run fed the same events with another hidden profile
    c2s,           \* commands in flight, client to server
    s2c,           \* events in flight, server to client
    srv,           \* the server's session state machine for the connection
    trace,         \* what the client has observed on this connection: sends, handled events
    last,          \* the event most recently handed to handleMessage
    store,         \* the server's leaderboard store: the totals per agent style
    http           \* the client's fetches of /api/leaderboard that have not settled

vars == <<wsState, timers, stale, page, twin, c2s, s2c, srv, trace, last, store, http>>

----------------------------------------------------------------------------
(* Bounds of the model *)

MaxCalls == 1          \* sessions the server creates
MaxTurnsTotal == 14    \* turns the server produces over all sessions
MaxInFlight == 2       \* events queued on the socket
MaxChat == 3           \* chat children under the arbitrary feed
MaxRecorded == 3       \* calls recorded in the leaderboard store
MaxFetches == 1        \* fetches of the leaderboard that have not settled

(* The hard turn limit *)
TurnLimit == 14

----------------------------------------------------------------------------
(* JavaScript values: numbers, undefined and NaN *)

Num(n) == [k |-> "num", n |-> n]
Undef == [k |-> "undefined", n |-> 0]
NaN == [k |-> "NaN", n |-> 0]
Html == [k |-> "html", n |-> 0]      \* whatever the static markup holds
IsNum(v) == v.k = "num"

\* ToBoolean: undefined, NaN and 0 are falsy
Truthy(v) == IsNum(v) /\ v.n # 0

\* a || b
OrElse(a, b) == IF Truthy(a) THEN a ELSE b

\* v * 10
Times10(v) == IF IsNum(v) THEN Num(v.n * 10) ELSE NaN

\* v >= c : false for undefined and NaN
Ge(v, c) == IsNum(v) /\ v.n >= c

\* a >= b on two values
GeV(a, b) == IsNum(a) /\ IsNum(b) /\ a.n >= b.n

\* element.textContent = v : undefined is the null of a nullable DOMString
Empty == [k |-> "empty", n |-> 0]
TextContent(v) == IF v.k = "undefined" THEN Empty ELSE v

\* element.style.width = `${pct}%` : a negative or NaN percentage is an
\* invalid declaration and leaves the old width in place
SetWidth(old, pct) == IF IsNum(pct) /\ pct.n >= 0 THEN pct ELSE old

\* value >= 7 ? 'high' : value >= 4 ? 'medium' : 'low'
Level(v) == IF Ge(v, 7) THEN "high" ELSE IF Ge(v, 4) THEN "medium" ELSE "low"

----------------------------------------------------------------------------
(* Strings that the code inspects are sequences of characters *)

UpperChars == <<"A","B","C","D","E","F","G","H","I","J","K","L","M",
                "N","O","P","Q","R","S","T","U","V","W","X","Y","Z">>
LowerChars == <<"a","b","c","d","e","f","g","h","i","j","k","l","m",
                "n","o","p","q","r","s","t","u","v","w","x","y","z">>

LowerMap ==
    [c \in {UpperChars[i] : i \in 1..Len(UpperChars)} |->
        LowerChars[CHOOSE i \in 1..Len(UpperChars) : UpperChars[i] = c]]
UpperMap ==
    [c \in {LowerChars[i] : i \in 1..Len(LowerChars)} |->
        UpperChars[CHOOSE i \in 1..Len(LowerChars) : LowerChars[i] = c]]

\* a character that is no letter maps to itself
LowerOf(c) == IF c \in DOMAIN LowerMap THEN LowerMap[c] ELSE c
UpperOf(c) == IF c \in DOMAIN UpperMap THEN UpperMap[c] ELSE c

\* String.prototype.toUpperCase
ToUpperCase(s) == [i \in 1..Len(s) |-> UpperOf(s[i])]

\* String.prototype.toLowerCase
ToLowerCase(s) == [i \in 1..Len(s) |-> LowerOf(s[i])]

\* String.prototype.includes
Includes(text, part) ==
    \E i \in 0..(Len(text) - Len(part)) :
        \A j \in 1..Len(part) : text[i + j] = part[j]

\* an optional string: tone?.toLowerCase()
NoTone == [present |-> FALSE, s |-> <<>>]
Tone(s) == [present |-> TRUE, s |-> s]

PositiveTones == { <<"h","a","p","p","y">>,
                   <<"i","n","t","e","r","e","s","t","e","d">>,
                   <<"c","u","r","i","o","u","s">>,
                   <<"e","n","g","a","g","e","d">>,
                   <<"w","a","r","m">>,
                   <<"f","r","i","e","n","d","l","y">> }
NegativeTones == { <<"f","r","u","s","t","r","a","t","e","d">>,
                   <<"a","n","n","o","y","e","d">>,
                   <<"s","k","e","p","t","i","c","a","l">>,
                   <<"i","m","p","a","t","i","e","n","t">>,
                   <<"h","o","s","t","i","l","e">>,
                   <<"a","n","g","r","y">> }

getToneClass_CaseSensitive(tone) ==
    IF tone.present /\ tone.s \in PositiveTones THEN "positive"
    ELSE IF tone.present /\ tone.s \in NegativeTones THEN "negative"
    ELSE "neutral"

getToneClass(tone) ==
    LET lower == IF tone.present THEN Tone(ToLowerCase(tone.s)) ELSE NoTone
    IN  IF lower.present /\ lower.s \in PositiveTones THEN "positive"
        ELSE IF lower.present /\ lower.s \in NegativeTones THEN "negative"
        ELSE "neutral"

getDominantMotivation_Strict(motivation) ==
    IF motivation.head.n > motivation.heart.n /\ motivation.head.n > motivation.hand.n
    THEN "head"
    ELSE IF motivation.heart.n > motivation.head.n /\ motivation.heart.n > motivation.hand.n
    THEN "heart"
    ELSE "hand"

getDominantMotivation(motivation) ==
    IF GeV(motivation.head, motivation.heart) /\ GeV(motivation.head, motivation.hand)
    THEN "head"
    ELSE IF GeV(motivation.heart, motivation.head) /\ GeV(motivation.heart, motivation.hand)
    THEN "heart"
    ELSE "hand"

----------------------------------------------------------------------------
(* The page: the script's globals and the DOM elements it writes.  The     *)
(* static markup is not part of the sources, so what an element holds      *)
(* before the script first writes it is the opaque value Html.             *)

Motivations == {"head", "heart", "hand"}
Metrics == {"satisfaction", "trust", "urgency", "frustration", "likelihood"}

AGENT_ICONS == [closer |-> "C", detective |-> "D", empath |-> "E",
                robot |-> "R", gambler |-> "G"]

InitPage(disabled) ==
    [ currentFraudRisk  |-> Num(2),
      currentAgentStyle |-> "",
      startDisabled     |-> disabled,
      turnCount         |-> Html,
      agentBadge        |-> [icon |-> "html", class |-> "html", name |-> "html", style |-> "html"],
      fraudRiskBarWidth |-> Html,
      fraudRiskValue    |-> Html,
      fraudRiskBarClass |-> "html",
      motivation        |-> [m \in Motivations |-> [width |-> Html, value |-> Html]],
      dominant          |-> {},
      reasoningText     |-> "html",
      sentiment         |-> [m \in Metrics |-> [width |-> Html, value |-> Html, class |-> "html"]],
      toneValue         |-> Tone(<<"h","t","m","l">>),
      toneClass         |-> "html",
      frustrationWarning |-> [display |-> "html", class |-> "html"],
      chat              |-> << [kind |-> "welcome"] >>,
      leaderboardModal  |-> FALSE,
      leaderboardContent |-> [kind |-> "html", items |-> <<>>] ]

\* chatMessages.appendChild(el)
AppendChild(p, el) == [p EXCEPT !.chat = Append(@, el)]

\* element.remove() for the first child of the given kind, if any
RemoveKind(chat, kind) ==
    IF \E i \in 1..Len(chat) : chat[i].kind = kind
    THEN LET i == CHOOSE i \in 1..Len(chat) :
                     /\ chat[i].kind = kind
                     /\ \A j \in 1..(i - 1) : chat[j].kind # kind
         IN  SubSeq(chat, 1, i - 1) \o SubSeq(chat, i + 1, Len(chat))
    ELSE chat

resetDashboard_KeepsDominant(p) ==
    [p EXCEPT
        !.fraudRiskBarWidth = Num(20),
        !.fraudRiskValue = Num(2),
        !.fraudRiskBarClass = "low",
        !.motivation = [m \in Motivations |-> [width |-> Num(33), value |-> Num(33)]],
        !.reasoningText = "Waiting for conversation to begin...",
        !.sentiment = [m \in Metrics |->
                          IF m = "frustration"
                          THEN [width |-> Num(20), value |-> Num(2), class |-> @[m].class]
                          ELSE [width |-> Num(50), value |-> Num(5), class |-> @[m].class]],
        !.toneValue = Tone(<<"n","e","u","t","r","a","l">>),
        !.toneClass = "neutral",
        !.frustrationWarning = [display |-> "none", class |-> @.class] ]

resetDashboard(p) ==
    [p EXCEPT
        !.fraudRiskBarWidth = Num(20),
        !.fraudRiskValue = Num(2),
        !.fraudRiskBarClass = "low",
        !.motivation = [m \in Motivations |-> [width |-> Num(33), value |-> Num(33)]],
        !.dominant = {},
        !.reasoningText = "Waiting for conversation to begin...",
        !.sentiment = [m \in Metrics |->
                          IF m = "frustration"
                          THEN [width |-> Num(20), value |-> Num(2), class |-> @[m].class]
                          ELSE [width |-> Num(50), value |-> Num(5), class |-> @[m].class]],
        !.toneValue = Tone(<<"n","e","u","t","r","a","l">>),
        !.toneClass = "neutral",
        !.frustrationWarning = [display |-> "none", class |-> @.class] ]

handleCallStart_ShowsCustomer(p, data) ==
    LET p1 == [p EXCEPT !.chat = RemoveKind(@, "welcome")]
        p2 == [p1 EXCEPT
                 !.turnCount = Num(0),
                 !.currentAgentStyle = data.agent.style,
                 !.agentBadge = [icon  |-> IF data.agent.style \in DOMAIN AGENT_ICONS
                                           THEN AGENT_ICONS[data.agent.style] ELSE "?",
                                 class |-> data.agent.style,
                                 name  |-> data.customer.name,
                                 style |-> data.agent_info.display_name]]
    IN  AppendChild(resetDashboard(p2),
                    [kind |-> "divider", call_id |-> data.call_id,
                     style |-> data.agent.style,
                     display_name |-> data.agent_info.display_name,
                     warmup |-> data.warmup_mode])

handleCallStart(p, data) ==
    LET p1 == [p EXCEPT !.chat = RemoveKind(@, "welcome")]
        p2 == [p1 EXCEPT
                 !.turnCount = Num(0),
                 !.currentAgentStyle = data.agent.style,
                 !.agentBadge = [icon  |-> IF data.agent.style \in DOMAIN AGENT_ICONS
                                           THEN AGENT_ICONS[data.agent.style] ELSE "?",
                                 class |-> data.agent.style,
                                 name  |-> data.agent.name,
                                 style |-> data.agent_info.display_name]]
    IN  AppendChild(resetDashboard(p2),
                    [kind |-> "divider", call_id |-> data.call_id,
                     style |-> data.agent.style,
                     display_name |-> data.agent_info.display_name,
                     warmup |-> data.warmup_mode])

\* the avatar of a bubble or of the typing indicator
Avatar(p, speaker) ==
    IF speaker = "agent" /\ p.currentAgentStyle # ""
    THEN p.currentAgentStyle
    ELSE IF speaker = "agent" THEN "A" ELSE "C"

\* 'flagged for fraud'
FlaggedForFraud == <<"f","l","a","g","g","e","d"," ","f","o","r"," ","f","r","a","u","d">>

addMessage_AboveFive(p, speaker, text, isBounce, isEnd) ==
    IF speaker = "system"
    THEN LET p1 == AppendChild(p, [kind |-> "system", text |-> text])
         IN  IF Includes(text, FlaggedForFraud) /\ Ge(p.currentFraudRisk, 6)
             THEN AppendChild(p1, [kind |-> "alert", risk |-> p.currentFraudRisk])
             ELSE p1
    ELSE AppendChild(p, [kind |-> "message", speaker |-> speaker, bounce |-> isBounce,
                         avatar |-> Avatar(p, speaker), text |-> text])

addMessage(p, speaker, text, isBounce, isEnd) ==
    IF speaker = "system"
    THEN LET p1 == AppendChild(p, [kind |-> "system", text |-> text])
         IN  IF Includes(text, FlaggedForFraud) /\ Ge(p.currentFraudRisk, 5)
             THEN AppendChild(p1, [kind |-> "alert", risk |-> p.currentFraudRisk])
             ELSE p1
    ELSE AppendChild(p, [kind |-> "message", speaker |-> speaker, bounce |-> isBounce,
                         avatar |-> Avatar(p, speaker), text |-> text])

hideTypingIndicator(p) == [p EXCEPT !.chat = RemoveKind(@, "typing")]

showTypingIndicator_NoHide(p, speaker) ==
    AppendChild(p, [kind |-> "typing", speaker |-> speaker, avatar |-> Avatar(p, speaker)])

showTypingIndicator(p, speaker) ==
    AppendChild(hideTypingIndicator(p),
                [kind |-> "typing", speaker |-> speaker, avatar |-> Avatar(p, speaker)])

updateSentimentBar(p, metric, value) ==
    [p EXCEPT !.sentiment[metric] =
        [width |-> SetWidth(@.width, Times10(value)),
         value |-> TextContent(value),
         class |-> Level(value)]]

\* confidence.motivation_guess || { head: 33, heart: 34, hand: 33 }
DefaultMotivation == [head |-> Num(33), heart |-> Num(34), hand |-> Num(33)]

\* the dashboard_update handler up to the fraud-risk block, then the rest
updateFraudRisk(p, confidence) ==
    LET fraudRisk == OrElse(confidence.fraud_likelihood, Num(5))
    IN  [p EXCEPT
           !.currentFraudRisk = fraudRisk,
           !.fraudRiskBarWidth = SetWidth(@, Times10(fraudRisk)),
           !.fraudRiskValue = fraudRisk,
           !.fraudRiskBarClass = Level(fraudRisk)]

updateMotivation(p, confidence) ==
    LET motivation == IF confidence.motivation_guess.present
                      THEN confidence.motivation_guess
                      ELSE DefaultMotivation
    IN  [p EXCEPT
           !.motivation = [m \in Motivations |->
                              [width |-> SetWidth(@[m].width, motivation[m]),
                               value |-> motivation[m]]],
           !.dominant = {getDominantMotivation(motivation)},
           !.reasoningText = IF confidence.reasoning # ""
                             THEN confidence.reasoning ELSE "Analyzing..."]

updateTone(p, sentiment) ==
    [p EXCEPT
       !.toneValue = IF sentiment.emotional_tone.present /\ sentiment.emotional_tone.s # <<>>
                     THEN sentiment.emotional_tone
                     ELSE Tone(<<"n","e","u","t","r","a","l">>),
       !.toneClass = getToneClass(sentiment.emotional_tone)]

updateFrustrationWarning(p, sentiment) ==
    LET displayedFrustration == OrElse(sentiment.frustration, Num(0))
    IN  IF Ge(displayedFrustration, 6)
        THEN [p EXCEPT !.frustrationWarning =
                 [display |-> "flex",
                  class |-> IF Ge(displayedFrustration, 8) THEN "critical" ELSE "warning"]]
        ELSE [p EXCEPT !.frustrationWarning.display = "none"]

updateDashboard_AccumulatedFrustration(p, data) ==
    LET p0 == IF Truthy(data.turn) THEN [p EXCEPT !.turnCount = data.turn] ELSE p
        p1 == updateFraudRisk(p0, data.confidence)
        p2 == updateMotivation(p1, data.confidence)
        p3 == updateSentimentBar(p2, "satisfaction", data.sentiment.satisfaction)
        p4 == updateSentimentBar(p3, "trust", data.sentiment.trust)
        p5 == updateSentimentBar(p4, "urgency", data.sentiment.urgency)
        p6 == updateSentimentBar(p5, "frustration", data.sentiment.frustration)
        p7 == updateSentimentBar(p6, "likelihood", data.sentiment.likelihood_to_convert)
        p8 == updateTone(p7, data.sentiment)
    IN  updateFrustrationWarning(p8, [data.sentiment EXCEPT !.frustration = data.frustration])

updateDashboard(p, data) ==
    LET p0 == IF Truthy(data.turn) THEN [p EXCEPT !.turnCount = data.turn] ELSE p
        p1 == updateFraudRisk(p0, data.confidence)
        p2 == updateMotivation(p1, data.confidence)
        p3 == updateSentimentBar(p2, "satisfaction", data.sentiment.satisfaction)
        p4 == updateSentimentBar(p3, "trust", data.sentiment.trust)
        p5 == updateSentimentBar(p4, "urgency", data.sentiment.urgency)
        p6 == updateSentimentBar(p5, "frustration", data.sentiment.frustration)
        p7 == updateSentimentBar(p6, "likelihood", data.sentiment.likelihood_to_convert)
        p8 == updateTone(p7, data.sentiment)
    IN  updateFrustrationWarning(p8, data.sentiment)

\* data.close_attempted ? 'Closed' : data.flag_used ? 'Flagged'
\*     : data.customer_bounced ? 'Customer Left' : 'Timed Out'
ActionLabel_FlagFirst(data) ==
    IF data.flag_used THEN "Flagged"
    ELSE IF data.close_attempted THEN "Closed"
    ELSE IF data.customer_bounced THEN "Customer Left"
    ELSE "Timed Out"

ActionLabel(data) ==
    IF data.close_attempted THEN "Closed"
    ELSE IF data.flag_used THEN "Flagged"
    ELSE IF data.customer_bounced THEN "Customer Left"
    ELSE "Timed Out"

outcomeEmoji == [conversion |-> "+", missed_opp |-> "-",
                 fraud_caught |-> "!", fraud_missed |-> "X"]

\* the outcome card; the free-text sections (pitch, flag reason, learning,
\* transcript) are copied from the event and are left out of the card here
handleCallEnd(p, data) ==
    LET card == [kind |-> "card",
                 outcome |-> data.outcome,
                 emoji |-> IF data.outcome \in DOMAIN outcomeEmoji
                           THEN outcomeEmoji[data.outcome] ELSE "?",
                 points |-> data.points,
                 pointsClass |-> IF data.points >= 0 THEN "positive" ELSE "negative",
                 name |-> data.customer.name,
                 tier |-> data.customer_tier_display,
                 motivationClass |-> data.customer.motivation,
                 motivation |-> ToUpperCase(data.customer.motivation),
                 fraud |-> IF data.customer.is_fraud THEN "YES" ELSE "No",
                 action |-> ActionLabel(data),
                 turns |-> data.turns_used,
                 of |-> TurnLimit]
    IN  [AppendChild(p, card) EXCEPT !.startDisabled = FALSE]

\* the first half of showLeaderboard, up to the fetch
showLeaderboard(p) ==
    [p EXCEPT !.leaderboardModal = TRUE,
              !.leaderboardContent = [kind |-> "loading", items |-> <<>>]]

\* the catch branch of showLeaderboard
showLeaderboardFailed(p) ==
    [p EXCEPT !.leaderboardContent = [kind |-> "error", items |-> <<>>]]

hideLeaderboard(p) == [p EXCEPT !.leaderboardModal = FALSE]

\* rank === 1 ? 'gold' : rank === 2 ? 'silver' : rank === 3 ? 'bronze' : ''
RankClass(rank) ==
    IF rank = 1 THEN "gold" ELSE IF rank = 2 THEN "silver"
    ELSE IF rank = 3 THEN "bronze" ELSE ""

\* one leaderboard item, for the entry at the given index (from 1) of the response
LeaderboardItem(agent, rank) ==
    [ rank |-> rank,
      rankClass |-> RankClass(rank),
      style |-> agent.style,
      name |-> IF agent.display_name # "" THEN agent.display_name ELSE agent.style,
      total_calls |-> agent.total_calls,
      conversion_rate |-> agent.conversion_rate,
      frauds_caught |-> agent.frauds_caught,
      points |-> agent.total_points,
      pointsClass |-> IF agent.total_points >= 0 THEN "positive" ELSE "negative" ]

renderLeaderboard_BottomUp(p, data) ==
    IF Len(data) = 0
    THEN [p EXCEPT !.leaderboardContent = [kind |-> "nodata", items |-> <<>>]]
    ELSE [p EXCEPT !.leaderboardContent =
             [kind |-> "list",
              items |-> [i \in 1..Len(data) |-> LeaderboardItem(data[Len(data) + 1 - i], i)]]]

renderLeaderboard(p, data) ==
    IF Len(data) = 0
    THEN [p EXCEPT !.leaderboardContent = [kind |-> "nodata", items |-> <<>>]]
    ELSE [p EXCEPT !.leaderboardContent =
             [kind |-> "list",
              items |-> [i \in 1..Len(data) |-> LeaderboardItem(data[i], i)]]]

handleMessage(p, data) ==
    CASE data.type = "call_start" -> handleCallStart(p, data)
      [] data.type = "typing" -> showTypingIndicator(p, data.speaker)
      [] data.type = "message" ->
            LET p1 == addMessage(hideTypingIndicator(p), data.speaker, data.text,
                                 data.is_bounce, data.is_end)
            IN  IF Truthy(data.turn) THEN [p1 EXCEPT !.turnCount = data.turn] ELSE p1
      [] data.type = "dashboard_update" -> updateDashboard(p, data)
      [] data.type = "call_end" -> handleCallEnd(p, data)
      [] OTHER -> p

----------------------------------------------------------------------------
(* Events of the live channel, as the objects JSON.parse yields.  Every    *)
(* event carries every field; a field an event type does not use holds its *)
(* blank.  call_id and turn are written on every event so that an observer *)
(* can tell which session and which turn an event belongs to: the handlers *)
(* read call_id only from call_start and turn only from message and        *)
(* dashboard_update.                                                       *)

NoGuess == [present |-> FALSE, head |-> Undef, heart |-> Undef, hand |-> Undef]
Guess(a, b, c) == [present |-> TRUE, head |-> a, heart |-> b, hand |-> c]

NoConfidence == [fraud_likelihood |-> Undef, motivation_guess |-> NoGuess, reasoning |-> ""]
Sentiment(a, b, c, d, e, tone) ==
    [satisfaction |-> a, trust |-> b, urgency |-> c, frustration |-> d,
     likelihood_to_convert |-> e, emotional_tone |-> tone]
NoSentiment == Sentiment(Undef, Undef, Undef, Undef, Undef, NoTone)

NoCustomer == [name |-> "", motivation |-> <<>>, is_fraud |-> FALSE]

NoData ==
    [ type |-> "", call_id |-> 0, speaker |-> "", text |-> <<>>,
      is_bounce |-> FALSE, is_end |-> FALSE, turn |-> Undef,
      confidence |-> NoConfidence, sentiment |-> NoSentiment, frustration |-> Undef,
      agent |-> [style |-> "", name |-> ""], agent_info |-> [display_name |-> ""],
      warmup_mode |-> FALSE,
      customer |-> NoCustomer, customer_tier_display |-> "",
      outcome |-> "", points |-> 0,
      close_attempted |-> FALSE, flag_used |-> FALSE, customer_bounced |-> FALSE,
      turns_used |-> Undef ]

\* the hidden ground truth of the non-agent party
Profiles ==
    { [name |-> "Alex", motivation |-> <<"h","e","a","d">>, is_fraud |-> FALSE, tier |-> "Gold"],
      [name |-> "Sam", motivation |-> <<"h","e","a","r","t">>, is_fraud |-> TRUE, tier |-> "Basic"] }

WithProfile(data, q) ==
    [data EXCEPT !.customer = [name |-> q.name, motivation |-> q.motivation,
                               is_fraud |-> q.is_fraud],
                 !.customer_tier_display = q.tier]

\* what the observer records of a handled event and of a sent command
Tag(data) == [type |-> data.type, call_id |-> data.call_id, turn |-> data.turn]
SentTag(cmd) == [type |-> cmd.type, call_id |-> 0, turn |-> Undef]

\* message texts
TextHello == <<"h","e","l","l","o">>
TextHi == <<"h","i">>
TextBye == <<"b","y","e">>
TextFlagged == <<"A","g","e","n","t"," ","f","l","a","g","g","e","d"," ","f","o","r"," ","f","r","a","u","d">>
TextEnded == <<"C","a","l","l"," ","e","n","d","e","d">>

----------------------------------------------------------------------------
(* The connection (connect and the socket's callbacks) and the start button *)

NewCall == [type |-> "new_call"]

\* ws.onopen
onopen_AutoStart(p) ==
    [page |-> [p EXCEPT !.startDisabled = TRUE], send |-> <<NewCall>>]

onopen(p) ==
    [page |-> [p EXCEPT !.startDisabled = FALSE], send |-> <<>>]

\* ws.onerror: logs, schedules nothing
onerror_Reconnects(p) == [page |-> p, timers |-> 1]

onerror(p) == [page |-> p, timers |-> 0]

\* ws.onclose: disables the button and schedules one connect()
onclose(p) == [page |-> [p EXCEPT !.startDisabled = TRUE], timers |-> 1]

\* connect(): ws = new WebSocket(...); a socket that ws referred to and that
\* is not closed stays alive without a reference
connect(readyState) ==
    [readyState |-> "CONNECTING", stale |-> IF readyState = "CLOSED" THEN 0 ELSE 1]

startNewCall_KeepsEnabled(p, readyState) ==
    IF readyState = "OPEN"
    THEN [page |-> p, send |-> <<NewCall>>]
    ELSE [page |-> p, send |-> <<>>]

startNewCall(p, readyState) ==
    IF readyState = "OPEN"
    THEN [page |-> [p EXCEPT !.startDisabled = TRUE], send |-> <<NewCall>>]
    ELSE [page |-> p, send |-> <<>>]

\* the socket delivers its messages to ws.onmessage in the order they arrived
NextDelivered_Newest(q) == Len(q)

NextDelivered(q) == 1

RemoveAt(q, i) == SubSeq(q, 1, i - 1) \o SubSeq(q, i + 1, Len(q))

\* the session the server drops when the transport goes away
SrvIdle(sv) == [sv EXCEPT !.state = "Idle", !.typing = FALSE, !.trigger = "none",
                          !.announced = FALSE]

\* the socket opens: ws.onopen runs
WsOpen ==
    /\ wsState = "CONNECTING"
    /\ wsState' = "OPEN"
    /\ LET r == onopen(page)
       IN  /\ page' = r.page
           /\ c2s' = r.send
           /\ trace' = [i \in 1..Len(r.send) |-> SentTag(r.send[i])]
    /\ s2c' = <<>>
    /\ UNCHANGED <<timers, stale, twin, srv, last, store, http>>

\* the closing handshake starts: readyState is CLOSING, no event is delivered any more
WsClosing ==
    /\ wsState = "OPEN"
    /\ wsState' = "CLOSING"
    /\ UNCHANGED <<timers, stale, page, twin, c2s, s2c, srv, trace, last, store, http>>

\* the socket closes: ws.onclose runs, after ws.onerror when the attempt or
\* the connection failed
WsClose ==
    /\ wsState \in {"CONNECTING", "OPEN", "CLOSING"}
    /\ wsState' = "CLOSED"
    /\ \E failed \in BOOLEAN :
          LET e == IF failed THEN onerror(page) ELSE [page |-> page, timers |-> 0]
              r == onclose(e.page)
          IN  /\ page' = r.page
              /\ timers' = timers + e.timers + r.timers
    /\ c2s' = <<>>
    /\ s2c' = <<>>
    /\ srv' = SrvIdle(srv)
    /\ UNCHANGED <<stale, twin, trace, last, store, http>>

\* the timer set by onclose fires: connect()
Reconnect ==
    /\ timers > 0
    /\ timers' = timers - 1
    /\ LET r == connect(wsState)
       IN  /\ wsState' = r.readyState
           /\ stale' = stale + r.stale
    /\ UNCHANGED <<page, twin, c2s, s2c, srv, trace, last, store, http>>

\* a click on the start button; a disabled button dispatches no click
ClickStart ==
    /\ ~page.startDisabled
    /\ LET r == startNewCall(page, wsState)
       IN  /\ page' = r.page
           /\ c2s' = c2s \o r.send
           /\ trace' = trace \o [i \in 1..Len(r.send) |-> SentTag(r.send[i])]
    /\ UNCHANGED <<wsState, timers, stale, twin, s2c, srv, last, store, http>>

\* ws.onmessage
OnMessage ==
    /\ wsState = "OPEN"
    /\ s2c # <<>>
    /\ LET i == NextDelivered(s2c)
       IN  /\ page' = handleMessage(page, s2c[i])
           /\ s2c' = RemoveAt(s2c, i)
           /\ trace' = Append(trace, Tag(s2c[i]))
           /\ last' = s2c[i]
    /\ UNCHANGED <<wsState, timers, stale, twin, c2s, srv, store, http>>

----------------------------------------------------------------------------
(* The server side of the channel: the session state machine of the        *)
(* specification (Idle, AwaitingTurn, Streaming, Terminating), one session *)
(* at a time on the connection.                                            *)

InitSrv ==
    [ state |-> "Idle", calls |-> 0, turn |-> 0, total |-> 0, typing |-> FALSE,
      trigger |-> "none", announced |-> FALSE ]

\* the profile generator: a pure function of the session's seed
ProfileOf(call_id) ==
    CHOOSE q \in Profiles : q.is_fraud = (call_id % 2 = 0)

\* agent speaks on odd turns, the counterpart on even turns
SpeakerOf(turn) == IF turn % 2 = 1 THEN "agent" ELSE "customer"

\* the snapshots the analytics engine yields: scalars in 0..10, percentages
\* summing to 100, or no opinion
SrvSnapshots ==
    { [confidence |-> [fraud_likelihood |-> Num(7),
                       motivation_guess |-> Guess(Num(50), Num(30), Num(20)),
                       reasoning |-> "r"],
       sentiment |-> Sentiment(Num(6), Num(4), Num(5), Num(7), Num(3), Tone(<<"w","a","r","m">>))],
      [confidence |-> NoConfidence,
       sentiment |-> Sentiment(Num(5), Num(5), Num(5), Num(2), Num(5), NoTone)] }

Emit(ev) ==
    /\ wsState = "OPEN"
    /\ Len(s2c) < MaxInFlight
    /\ s2c' = Append(s2c, ev)

\* a command arrives: a session starts only from Idle, otherwise the command is rejected
SrvCommand ==
    /\ wsState = "OPEN"
    /\ c2s # <<>>
    /\ c2s' = Tail(c2s)
    /\ IF srv.state = "Idle"
       THEN /\ srv.calls < MaxCalls
            /\ srv' = [srv EXCEPT !.state = "AwaitingTurn", !.calls = @ + 1, !.turn = 0,
                                  !.typing = FALSE, !.trigger = "none", !.announced = FALSE]
            /\ Emit([NoData EXCEPT !.type = "call_start", !.call_id = srv.calls + 1,
                                   !.agent = [style |-> "closer", name |-> "Casey"],
                                   !.agent_info = [display_name |-> "The Closer"]])
       ELSE UNCHANGED <<srv, s2c>>
    /\ UNCHANGED <<wsState, timers, stale, page, twin, trace, last, store, http>>

\* the utterance is requested: the typing indicator is surfaced
SrvTyping ==
    /\ srv.state = "AwaitingTurn"
    /\ ~srv.typing
    /\ srv.turn < TurnLimit
    /\ srv.total < MaxTurnsTotal
    /\ srv' = [srv EXCEPT !.typing = TRUE]
    /\ Emit([NoData EXCEPT !.type = "typing", !.call_id = srv.calls,
                           !.speaker = SpeakerOf(srv.turn + 1),
                           !.turn = Num(srv.turn + 1)])
    /\ UNCHANGED <<wsState, timers, stale, page, twin, c2s, trace, last, store, http>>

\* the agent's utterance arrives: the turn is appended and streamed
SrvAgentTurn ==
    /\ srv.state = "AwaitingTurn"
    /\ srv.typing
    /\ SpeakerOf(srv.turn + 1) = "agent"
    /\ srv' = [srv EXCEPT !.state = "Streaming", !.turn = @ + 1, !.total = @ + 1,
                          !.typing = FALSE]
    /\ Emit([NoData EXCEPT !.type = "message", !.call_id = srv.calls,
                           !.speaker = "agent", !.text = TextHello,
                           !.turn = Num(srv.turn + 1)])
    /\ UNCHANGED <<wsState, timers, stale, page, twin, c2s, trace, last, store, http>>

\* the analytics engine scores the transcript so far
SrvDashboard ==
    /\ srv.state = "Streaming"
    /\ srv' = [srv EXCEPT !.state = "AwaitingTurn"]
    /\ \E snap \in SrvSnapshots :
          Emit([NoData EXCEPT !.type = "dashboard_update", !.call_id = srv.calls,
                              !.confidence = snap.confidence,
                              !.sentiment = snap.sentiment,
                              !.turn = Num(srv.turn)])
    /\ UNCHANGED <<wsState, timers, stale, page, twin, c2s, trace, last, store, http>>

\* the counterpart's utterance arrives; the termination triggers are checked
\* after it: a walk-away, the agent's close or flag, or the turn limit
SrvCustomerTurn ==
    /\ srv.state = "AwaitingTurn"
    /\ srv.typing
    /\ SpeakerOf(srv.turn + 1) = "customer"
    /\ \E choice \in {"none", "close", "flag", "bounce"} :
          LET trigger == IF choice = "none" /\ srv.turn + 1 >= TurnLimit
                         THEN "timeout" ELSE choice
          IN  /\ srv' = [srv EXCEPT !.state = IF trigger = "none" THEN "AwaitingTurn"
                                               ELSE "Terminating",
                                    !.turn = @ + 1, !.total = @ + 1,
                                    !.typing = FALSE, !.trigger = trigger]
              /\ Emit([NoData EXCEPT !.type = "message", !.call_id = srv.calls,
                                     !.speaker = "customer", !.text = TextHi,
                                     !.is_bounce = (trigger = "bounce"),
                                     !.is_end = (trigger # "none"),
                                     !.turn = Num(srv.turn + 1)])
    /\ UNCHANGED <<wsState, timers, stale, page, twin, c2s, trace, last, store, http>>

\* the termination is announced in the transcript
SrvAnnounce ==
    /\ srv.state = "Terminating"
    /\ ~srv.announced
    /\ srv' = [srv EXCEPT !.announced = TRUE]
    /\ Emit([NoData EXCEPT !.type = "message", !.call_id = srv.calls,
                           !.speaker = "system",
                           !.text = IF srv.trigger = "flag"
                                    THEN TextFlagged
                                    ELSE TextEnded])
    /\ UNCHANGED <<wsState, timers, stale, page, twin, c2s, trace, last, store, http>>

\* the decision table of the scoring classifier
OutcomeOf(q, trigger) ==
    IF q.is_fraud /\ trigger = "flag" THEN "fraud_caught"
    ELSE IF q.is_fraud /\ trigger = "close" THEN "fraud_missed"
    ELSE IF ~q.is_fraud /\ trigger = "close" THEN "conversion"
    ELSE "missed_opp"

PointsOf(outcome) ==
    CASE outcome = "fraud_caught" -> 3
      [] outcome = "conversion" -> 2
      [] outcome = "missed_opp" -> 0
      [] OTHER -> -2

\* the leaderboard store: per agent style the cumulative counts, empty at
\* process start
Styles == DOMAIN AGENT_ICONS

InitStore ==
    [st \in Styles |-> [total_calls |-> 0, total_points |-> 0,
                        conversions |-> 0, frauds_caught |-> 0]]

\* recordCall: a warmup session leaves the aggregate alone
recordCall(sto, agentStyle, outcome, points, isWarmup) ==
    IF isWarmup THEN sto
    ELSE [sto EXCEPT ![agentStyle] =
             [total_calls |-> @.total_calls + 1,
              total_points |-> @.total_points + points,
              conversions |-> @.conversions + (IF outcome = "conversion" THEN 1 ELSE 0),
              frauds_caught |-> @.frauds_caught + (IF outcome = "fraud_caught" THEN 1 ELSE 0)]]

\* a leaderboard entry as the query returns it, the rate derived on read
EntryOf(sto, st) ==
    [ style |-> st, display_name |-> "",
      total_calls |-> sto[st].total_calls,
      total_points |-> sto[st].total_points,
      conversion_rate |-> (sto[st].conversions * 100) \div sto[st].total_calls,
      frauds_caught |-> sto[st].frauds_caught ]

\* query: the entries of the recorded styles sorted descending by cumulative
\* points; styles with equal points come in either order
Queries(sto) ==
    LET recorded == { st \in Styles : sto[st].total_calls > 0 }
        n == Cardinality(recorded)
        orders == { o \in [1..n -> recorded] :
                      /\ \A i, j \in 1..n : i # j => o[i] # o[j]
                      /\ \A i \in 1..(n - 1) :
                            sto[o[i]].total_points >= sto[o[i + 1]].total_points }
    IN  { [i \in 1..n |-> EntryOf(sto, o[i])] : o \in orders }

\* the outcome is scored once and the summary ends the session; the
\* aggregate it is recorded into is followed under BoardSpec
SrvCallEnd ==
    /\ srv.state = "Terminating"
    /\ srv.announced
    /\ srv' = SrvIdle(srv)
    /\ LET q == ProfileOf(srv.calls)
           outcome == OutcomeOf(q, srv.trigger)
       IN  Emit(WithProfile(
                  [NoData EXCEPT !.type = "call_end", !.call_id = srv.calls,
                                 !.outcome = outcome, !.points = PointsOf(outcome),
                                 !.close_attempted = (srv.trigger = "close"),
                                 !.flag_used = (srv.trigger = "flag"),
                                 !.customer_bounced = (srv.trigger = "bounce"),
                                 !.turns_used = Num(srv.turn)], q))
    /\ UNCHANGED <<wsState, timers, stale, page, twin, c2s, trace, last, store, http>>

----------------------------------------------------------------------------
(* The client on its connection to the server *)

Init ==
    /\ wsState = "CONNECTING"
    /\ timers = 0
    /\ stale = 0
    /\ \E disabled \in BOOLEAN : page = InitPage(disabled)
    /\ twin = page
    /\ c2s = <<>>
    /\ s2c = <<>>
    /\ srv = InitSrv
    /\ trace = <<>>
    /\ last = NoData
    /\ store = InitStore
    /\ http = <<>>

Next ==
    \/ WsOpen
    \/ WsClosing
    \/ WsClose
    \/ Reconnect
    \/ ClickStart
    \/ OnMessage
    \/ SrvCommand
    \/ SrvTyping
    \/ SrvAgentTurn
    \/ SrvDashboard
    \/ SrvCustomerTurn
    \/ SrvAnnounce
    \/ SrvCallEnd

Spec == Init /\ [][Next]_vars

----------------------------------------------------------------------------
(* The handlers under an arbitrary feed: handleMessage applied to events   *)
(* drawn from bounded sets, whatever a server would send.  The twin page   *)
(* is fed the same event with the other hidden profile.                    *)

OtherProfile(q) == CHOOSE r \in Profiles : r # q

Feed(data) ==
    /\ page' = handleMessage(page, data)
    /\ Len(page'.chat) <= MaxChat
    /\ twin' = handleMessage(twin, WithProfile(data, OtherProfile(
                   [name |-> data.customer.name, motivation |-> data.customer.motivation,
                    is_fraud |-> data.customer.is_fraud, tier |-> data.customer_tier_display])))
    /\ last' = data
    /\ UNCHANGED <<wsState, timers, stale, c2s, s2c, srv, trace, store, http>>

CallStartEvents ==
    { WithProfile([NoData EXCEPT !.type = "call_start", !.call_id = 1,
                                 !.agent = [style |-> "closer", name |-> "Casey"],
                                 !.agent_info = [display_name |-> "The Closer"]], q)
      : q \in Profiles }

TypingEvents ==
    { WithProfile([NoData EXCEPT !.type = "typing", !.speaker = sp], q)
      : sp \in {"agent", "customer"}, q \in Profiles }

Msg(speaker, text, bounce, turn) ==
    [NoData EXCEPT !.type = "message", !.speaker = speaker, !.text = text,
                   !.is_bounce = bounce, !.turn = turn]

MessageEvents ==
    { WithProfile(m, q) :
        m \in { Msg("agent", TextHello, FALSE, Num(TurnLimit + 1)),
                Msg("customer", TextBye, TRUE, Undef),
                Msg("system", TextFlagged, FALSE, Undef),
                Msg("system", TextEnded, FALSE, Undef) },
        q \in Profiles }

Dash(confidence, sentiment, frustration, turn) ==
    [NoData EXCEPT !.type = "dashboard_update", !.confidence = confidence,
                   !.sentiment = sentiment, !.frustration = frustration, !.turn = turn]

Confidence(fraud, guess) ==
    [fraud_likelihood |-> fraud, motivation_guess |-> guess, reasoning |-> "r"]

BaseGuess == Guess(Num(40), Num(35), Num(25))
BaseSentiment == Sentiment(Num(5), Num(5), Num(5), Num(5), Num(5), Tone(<<"c","a","l","m">>))

FewDashboardEvents ==
    { WithProfile(d, q) :
        d \in { Dash(Confidence(Num(7), BaseGuess), BaseSentiment, Undef, Num(2)),
                Dash(Confidence(Num(3), NoGuess), BaseSentiment, Undef, Undef) },
        q \in Profiles }

End(outcome, close, flag, bounce, turns) ==
    [NoData EXCEPT !.type = "call_end", !.outcome = outcome, !.points = PointsOf(outcome),
                   !.close_attempted = close, !.flag_used = flag,
                   !.customer_bounced = bounce, !.turns_used = turns]

FewCallEndEvents ==
    { WithProfile(End("fraud_caught", FALSE, TRUE, FALSE, Num(5)), q) : q \in Profiles }

FeedCallStart == \E data \in CallStartEvents : Feed(data)
FeedTyping == \E data \in TypingEvents : Feed(data)
FeedMessage == \E data \in MessageEvents : Feed(data)
FeedDashboardUpdate == \E data \in FewDashboardEvents : Feed(data)
FeedCallEnd == Len(page.chat) < MaxChat /\ \E data \in FewCallEndEvents : Feed(data)

FeedNext ==
    \/ FeedCallStart
    \/ FeedTyping
    \/ FeedMessage
    \/ FeedDashboardUpdate
    \/ FeedCallEnd

FeedSpec == Init /\ [][FeedNext]_vars

----------------------------------------------------------------------------
(* The dashboard under arbitrary snapshots *)

Capitalize(w) == [i \in 1..Len(w) |-> IF i = 1 THEN UpperOf(w[i]) ELSE w[i]]

ToneInputs ==
    LET words == PositiveTones \cup NegativeTones
    IN  {NoTone}
        \cup { Tone(w) : w \in words }
        \cup { Tone(ToUpperCase(w)) : w \in words }
        \cup { Tone(Capitalize(w)) : w \in {<<"w","a","r","m">>, <<"a","n","g","r","y">>} }
        \cup { Tone(SubSeq(w, 1, Len(w) - 1)) : w \in {<<"w","a","r","m">>, <<"a","n","g","r","y">>} }
        \cup { Tone(w \o <<" ">>) : w \in {<<"w","a","r","m">>, <<"a","n","g","r","y">>} }
        \cup { Tone(<<>>), Tone(<<"s","a","d">>), Tone(<<"n","e","u","t","r","a","l">>),
               Tone(<<"u","n","h","a","p","p","y">>) }

FraudInputs == {Undef, NaN} \cup { Num(n) : n \in {-1, 0, 2, 4, 7, 10, 12} }

GuessInputs ==
    { NoGuess, BaseGuess, Guess(Num(34), Num(33), Num(33)), Guess(Num(50), Num(50), Num(50)),
      Guess(Num(20), Num(20), Num(60)), Guess(Num(30), Num(40), Num(30)),
      Guess(Num(0), Num(0), Num(0)) }

ScalarInputs == { Num(n) : n \in {-1, 0, 3, 6, 8, 10, 11} }
FrustrationInputs == {Undef} \cup { Num(n) : n \in {0, 5, 6, 7, 8} }

DashboardEvents ==
    { Dash(Confidence(f, BaseGuess), BaseSentiment, Undef, Num(4)) : f \in FraudInputs }
    \cup { Dash(Confidence(Num(3), g), BaseSentiment, Undef, Num(4)) : g \in GuessInputs }
    \cup { Dash(Confidence(Num(3), BaseGuess),
                Sentiment(v, v, v, v, v, Tone(<<"c","a","l","m">>)), Undef, Num(4))
           : v \in ScalarInputs }
    \cup { Dash(Confidence(Num(3), BaseGuess),
                Sentiment(Num(5), Num(5), Num(5), v, Num(5), Tone(<<"c","a","l","m">>)),
                top, Num(4))
           : v \in FrustrationInputs, top \in {Undef, Num(9)} }
    \cup { Dash(Confidence(Num(3), BaseGuess),
                Sentiment(Num(5), Num(5), Num(5), Num(5), Num(5), t), Undef, Num(4))
           : t \in ToneInputs }
    \cup { Dash(Confidence(Num(3), BaseGuess), BaseSentiment, Undef, t)
           : t \in {Undef, Num(0), Num(TurnLimit + 1)} }

DashCallStart == Len(page.chat) < MaxChat /\ \E data \in CallStartEvents : Feed(data)
DashUpdate == \E data \in DashboardEvents : Feed(data)

DashNext ==
    \/ DashCallStart
    \/ DashUpdate

DashSpec == Init /\ [][DashNext]_vars

----------------------------------------------------------------------------
(* The outcome card under arbitrary summaries *)

CallEndEvents ==
    { WithProfile(End(o, c, f, b, t), q) :
        o \in {"conversion", "mystery"}, c \in BOOLEAN, f \in BOOLEAN, b \in BOOLEAN,
        t \in {Num(3), Num(TurnLimit), Num(TurnLimit + 1)}, q \in Profiles }

EndCallEnd == Len(page.chat) < MaxChat /\ \E data \in CallEndEvents : Feed(data)

EndNext == EndCallEnd

EndSpec == Init /\ [][EndNext]_vars

----------------------------------------------------------------------------
(* The motivation panel under arbitrary guesses *)

Percentages == {0, 20, 33, 34, 40}

MotivationGuesses ==
    {NoGuess} \cup { Guess(Num(a), Num(b), Num(c)) : a, b, c \in Percentages }

MotivationCallStart == Len(page.chat) < MaxChat /\ \E data \in CallStartEvents : Feed(data)
MotivationEvents ==
    { Dash(Confidence(Num(3), g), BaseSentiment, Undef, Undef) : g \in MotivationGuesses }

MotivationUpdate == \E data \in MotivationEvents : Feed(data)

MotivationNext ==
    \/ MotivationCallStart
    \/ MotivationUpdate

MotivationSpec == Init /\ [][MotivationNext]_vars

----------------------------------------------------------------------------
(* The fraud alert bubble under arbitrary messages and fraud likelihoods *)

AlertTexts ==
    { TextFlagged, TextEnded,
      <<"u","n","f","l","a","g","g","e","d"," ","f","o","r"," ","f","r","a","u","d","!">>,
      <<"F","l","a","g","g","e","d"," ","F","o","r"," ","F","r","a","u","d">>,
      <<"f","l","a","g","g","e","d"," ","f","o","r"," ","f","r","a","u">> }

AlertMessages ==
    { Msg("system", t, FALSE, Undef) : t \in AlertTexts }
    \cup { Msg("agent", TextFlagged, FALSE, Num(3)),
           Msg("customer", TextFlagged, FALSE, Num(4)),
           Msg("customer", TextBye, TRUE, Num(4)) }

AlertFraudInputs == {Undef} \cup { Num(n) : n \in {4, 5, 6, 10} }

AlertCallStart == Len(page.chat) < MaxChat /\ \E data \in CallStartEvents : Feed(data)
AlertDashboardEvents ==
    { Dash(Confidence(f, BaseGuess), BaseSentiment, Undef, Undef) : f \in AlertFraudInputs }

AlertDashboardUpdate == \E data \in AlertDashboardEvents : Feed(data)
AlertMessage == \E data \in AlertMessages : Feed(data)

AlertNext ==
    \/ AlertCallStart
    \/ AlertDashboardUpdate
    \/ AlertMessage

AlertSpec == Init /\ [][AlertNext]_vars

----------------------------------------------------------------------------
(* The leaderboard: the server's store and query, and the modal that shows *)
(* the response of GET /api/leaderboard.  A fetch is a request that is     *)
(* "sent" until the server answers it and "answered" until its promise     *)
(* settles in the page; fetches settle in any order.                       *)

RecordedStyles == {"closer", "detective", "robot"}
RecordedOutcomes == {"conversion", "fraud_missed"}

\* a session ends and its score is recorded
SrvRecordCall ==
    /\ \E st \in RecordedStyles, outcome \in RecordedOutcomes, isWarmup \in BOOLEAN :
          /\ (LET sum[S \in SUBSET Styles] ==
                      IF S = {} THEN 0
                      ELSE LET x == CHOOSE x \in S : TRUE
                           IN  store[x].total_calls + sum[S \ {x}]
                IN  sum[Styles]) < MaxRecorded
          /\ store' = recordCall(store, st, outcome, PointsOf(outcome), isWarmup)
          /\ store' # store
    /\ UNCHANGED <<wsState, timers, stale, page, twin, c2s, s2c, srv, trace, last, http>>

\* a click on the leaderboard button: showLeaderboard up to its fetch
ClickLeaderboard ==
    /\ Len(http) < MaxFetches
    /\ page' = showLeaderboard(page)
    /\ http' = Append(http, [state |-> "sent", body |-> <<>>])
    /\ UNCHANGED <<wsState, timers, stale, twin, c2s, s2c, srv, trace, last, store>>

\* the server answers a request with the ranked entries
SrvQuery ==
    /\ \E i \in 1..Len(http) :
          /\ http[i].state = "sent"
          /\ \E body \in Queries(store) :
                http' = [http EXCEPT ![i] = [state |-> "answered", body |-> body]]
    /\ UNCHANGED <<wsState, timers, stale, page, twin, c2s, s2c, srv, trace, last, store>>

\* a fetch resolves: the rest of showLeaderboard's try block
FetchResolved ==
    /\ \E i \in 1..Len(http) :
          /\ http[i].state = "answered"
          /\ page' = renderLeaderboard(page, http[i].body)
          /\ http' = RemoveAt(http, i)
    /\ UNCHANGED <<wsState, timers, stale, twin, c2s, s2c, srv, trace, last, store>>

\* a fetch fails: showLeaderboard's catch block
FetchRejected ==
    /\ \E i \in 1..Len(http) :
          /\ page' = showLeaderboardFailed(page)
          /\ http' = RemoveAt(http, i)
    /\ UNCHANGED <<wsState, timers, stale, twin, c2s, s2c, srv, trace, last, store>>

\* a click on the modal's close button or on its backdrop
ClickClose ==
    /\ page.leaderboardModal
    /\ page' = hideLeaderboard(page)
    /\ UNCHANGED <<wsState, timers, stale, twin, c2s, s2c, srv, trace, last, store, http>>

BoardNext ==
    \/ SrvRecordCall
    \/ ClickLeaderboard
    \/ SrvQuery
    \/ FetchResolved
    \/ FetchRejected
    \/ ClickClose

BoardSpec == Init /\ [][BoardNext]_vars

----------------------------------------------------------------------------
(* Properties *)

\* the events handled on this connection, in the order handled
Handled == SelectSeq(trace, LAMBDA e : e.type # "new_call")

Cards(p) == { i \in 1..Len(p.chat) : p.chat[i].kind = "card" }

\* C1, first part: between two start commands sent on one connection the
\* client has handled the call_end of a session that began after the first
NoDoubleStart ==
    LET starts == { i \in 1..Len(trace) : trace[i].type = "new_call" }
    IN  \A i, j \in starts :
          i < j => \E k, m \in (i + 1)..(j - 1) :
                      /\ k < m
                      /\ trace[k].type = "call_start"
                      /\ trace[m].type = "call_end"
                      /\ trace[m].call_id = trace[k].call_id

\* C1: a session is never double-started: no second start command on a
\* connection before the call_end of the session started; sending leaves the
\* start button disabled, and only a handled call_end or the opening of a
\* connection enables it again
C1_NeverDoubleStarted ==
    [][ /\ NoDoubleStart'
        /\ (Len(c2s') > Len(c2s)) => page'.startDisabled
        /\ (page.startDisabled /\ ~page'.startDisabled)
              => \/ wsState # "OPEN" /\ wsState' = "OPEN"
                 \/ last'.type = "call_end" /\ trace' = Append(trace, Tag(last'))
      ]_vars

\* a second start command was sent on the connection, after the first session's call_end
C1_Witness ==
    \E i, j \in 1..Len(trace) :
        /\ i < j
        /\ trace[i].type = "new_call"
        /\ trace[j].type = "new_call"
        /\ \E m \in (i + 1)..(j - 1) : trace[m].type = "call_end"

\* C2: per-session ordering of the handled events: call_start before every
\* other event of its session, a typing event before the message of its turn,
\* a dashboard_update right after the message of its turn, call_end last
C2_EventOrdering ==
    LET h == Handled
    IN  \A i \in 1..Len(h) :
          /\ h[i].type # "call_start"
                => \E j \in 1..(i - 1) : /\ h[j].type = "call_start"
                                         /\ h[j].call_id = h[i].call_id
          /\ h[i].type = "typing"
                => \A j \in 1..Len(h) :
                      ( /\ h[j].type = "message"
                        /\ h[j].call_id = h[i].call_id
                        /\ h[j].turn = h[i].turn ) => i < j
          /\ h[i].type = "dashboard_update"
                => /\ i > 1
                   /\ h[i - 1].type = "message"
                   /\ h[i - 1].call_id = h[i].call_id
                   /\ h[i - 1].turn = h[i].turn
          /\ h[i].type = "call_end"
                => \A j \in (i + 1)..Len(h) : h[j].call_id # h[i].call_id

\* a whole session was handled: typing, message, dashboard_update and call_end
C2_Witness ==
    /\ \E i \in 1..Len(Handled) : Handled[i].type = "typing"
    /\ \E i \in 1..Len(Handled) : Handled[i].type = "dashboard_update"
    /\ Len(Handled) > 0
    /\ Handled[Len(Handled)].type = "call_end"
    /\ \E i \in 1..Len(Handled) : Handled[i].type = "message" /\ Handled[i].turn = Num(4)

MotivationShown(p) == \A m \in Motivations : IsNum(p.motivation[m].value)

\* C3 (as claimed): whenever the dashboard shows motivation percentages,
\* head + heart + hand = 100
C3_MotivationSumIs100 ==
    MotivationShown(page)
        => page.motivation["head"].value.n + page.motivation["heart"].value.n
              + page.motivation["hand"].value.n = 100

InBar(value, width) ==
    /\ IsNum(value) /\ value.n \in 0..10
    /\ IsNum(width) /\ width.n \in 0..100

\* C4 (as claimed): after a dashboard_update the fraud risk and the five
\* sentiment values shown lie in 0..10 and their bar widths in 0..100 percent
C4_ScalarsClamped ==
    last.type = "dashboard_update"
        => /\ InBar(page.fraudRiskValue, page.fraudRiskBarWidth)
           /\ \A m \in Metrics : InBar(page.sentiment[m].value, page.sentiment[m].width)

\* C5 (as claimed): a dashboard_update without a fraud likelihood shows the
\* prior 2/10, and a supplied likelihood, 0 included, is shown as it is
C5_FraudDefaultIsPrior ==
    last.type = "dashboard_update"
        => LET given == last.confidence.fraud_likelihood
           IN  /\ given.k = "undefined" => page.fraudRiskValue = Num(2)
               /\ IsNum(given) => page.fraudRiskValue = given

SameLetter(a, b) ==
    \/ a = b
    \/ \E i \in 1..Len(UpperChars) : {a, b} = {UpperChars[i], LowerChars[i]}

SameIgnoringCase(s, w) ==
    /\ Len(s) = Len(w)
    /\ \A i \in 1..Len(s) : SameLetter(s[i], w[i])

\* C6: the tone class shown is 'positive' exactly for the six positive
\* keywords and 'negative' exactly for the six negative ones, compared
\* ignoring case, and 'neutral' for any other tone and for none
C6_ToneLookup ==
    last.type = "dashboard_update"
        => LET tone == last.sentiment.emotional_tone
               pos == tone.present /\ \E w \in PositiveTones : SameIgnoringCase(tone.s, w)
               neg == tone.present /\ \E w \in NegativeTones : SameIgnoringCase(tone.s, w)
           IN  /\ page.toneClass \in {"positive", "negative", "neutral"}
               /\ page.toneClass = "positive" <=> pos
               /\ page.toneClass = "negative" <=> neg
               /\ page.toneClass = "neutral" <=> ~(pos \/ neg)

\* an upper-case keyword was classified
C6_Witness ==
    /\ last.type = "dashboard_update"
    /\ last.sentiment.emotional_tone = Tone(<<"H","O","S","T","I","L","E">>)
    /\ page.toneClass = "negative"

\* C7 (as claimed): the turn counter and the turns of every outcome card
\* never exceed the limit
C7_TurnsWithinLimit ==
    /\ IsNum(page.turnCount) => page.turnCount.n <= TurnLimit
    /\ \A i \in Cards(page) :
          IsNum(page.chat[i].turns) => page.chat[i].turns.n <= page.chat[i].of

\* C8: the card of a call_end shows exactly one action, chosen by the
\* precedence close_attempted, flag_used, customer_bounced; 'Timed Out'
\* exactly when none of the three is set
C8_OneAction ==
    last.type = "call_end"
        => LET card == page.chat[Len(page.chat)]
           IN  /\ card.kind = "card"
               /\ card.action \in {"Closed", "Flagged", "Customer Left", "Timed Out"}
               /\ card.action = "Closed" <=> last.close_attempted
               /\ card.action = "Flagged" <=> (~last.close_attempted /\ last.flag_used)
               /\ card.action = "Customer Left"
                     <=> (~last.close_attempted /\ ~last.flag_used /\ last.customer_bounced)
               /\ card.action = "Timed Out"
                     <=> ~(last.close_attempted \/ last.flag_used \/ last.customer_bounced)

\* a summary with both close_attempted and flag_used set was shown as Closed
C8_Witness ==
    /\ last.type = "call_end"
    /\ last.close_attempted /\ last.flag_used /\ last.customer_bounced
    /\ page.chat[Len(page.chat)].kind = "card"
    /\ page.chat[Len(page.chat)].action = "Closed"

\* C9: two runs fed the same events but for the hidden profile show the same
\* page until a call_end is handled, and differ once it is
C9_ProfileHiddenUntilEnd ==
    /\ Cards(page) = {} => twin = page
    /\ last.type = "call_end" => twin # page

\* a session was under way, no card yet, and the two runs got different profiles
C9_Witness ==
    /\ Cards(page) = {}
    /\ last.type = "message"
    /\ last.customer.name = "Alex"
    /\ \E i \in 1..Len(page.chat) : page.chat[i].kind = "divider"
    /\ twin = page
    /\ IsNum(page.fraudRiskValue)

\* C10: a command enters the channel only in a step taken with the start
\* button enabled and the socket open, and is one new_call; the opening of a
\* connection sends nothing and leaves the server's sessions alone; the
\* server starts a session only on a command
C10_NoWorkOnReconnect ==
    [][ /\ (Len(c2s') > Len(c2s))
              => /\ ~page.startDisabled
                 /\ wsState = "OPEN" /\ wsState' = "OPEN"
                 /\ c2s' = Append(c2s, NewCall)
        /\ (wsState # "OPEN" /\ wsState' = "OPEN") => (c2s' = <<>> /\ srv' = srv)
        /\ (srv'.calls > srv.calls) => (c2s # <<>> /\ Head(c2s) = NewCall)
      ]_vars

\* the client is connected again after a session began on an earlier
\* connection, and nothing was sent
C10_Witness ==
    /\ wsState = "OPEN"
    /\ trace = <<>>
    /\ c2s = <<>>
    /\ srv.calls = 1
    /\ srv.state = "Idle"
    /\ \E i \in 1..Len(page.chat) : page.chat[i].kind = "message"

\* what the dashboard panel and the turn counter show
DashboardOf(p) ==
    [ turnCount |-> p.turnCount,
      fraudRiskBarWidth |-> p.fraudRiskBarWidth,
      fraudRiskValue |-> p.fraudRiskValue,
      fraudRiskBarClass |-> p.fraudRiskBarClass,
      motivation |-> p.motivation,
      dominant |-> p.dominant,
      reasoningText |-> p.reasoningText,
      sentiment |-> p.sentiment,
      toneValue |-> p.toneValue,
      toneClass |-> p.toneClass,
      frustrationWarning |-> p.frustrationWarning ]

\* C11: right after a call_start is handled the turn counter shows 0 and the
\* dashboard the neutral priors (fraud 2/10 low, satisfaction, trust, urgency
\* and likelihood 5, frustration 2, tone neutral, warning hidden, no dominant
\* motivation), whatever was shown before; handling the same call_start once
\* more leaves the dashboard and the turn counter as they are
C11_IdempotentReset ==
    last.type = "call_start"
        => /\ page.turnCount = Num(0)
           /\ page.fraudRiskValue = Num(2)
           /\ page.fraudRiskBarWidth = Num(20)
           /\ page.fraudRiskBarClass = "low"
           /\ \A m \in Metrics :
                 /\ page.sentiment[m].value = IF m = "frustration" THEN Num(2) ELSE Num(5)
                 /\ page.sentiment[m].width = IF m = "frustration" THEN Num(20) ELSE Num(50)
           /\ page.toneValue = Tone(<<"n","e","u","t","r","a","l">>)
           /\ page.toneClass = "neutral"
           /\ page.frustrationWarning.display = "none"
           /\ page.dominant = {}
           /\ DashboardOf(handleMessage(page, last)) = DashboardOf(page)

\* a call_start was handled after a dashboard_update had raised the fraud
\* risk to 7 and coloured a sentiment bar
C11_Witness ==
    /\ last.type = "call_start"
    /\ page.currentFraudRisk = Num(7)
    /\ page.fraudRiskValue = Num(2)
    /\ page.sentiment["satisfaction"].class = "medium"
    /\ Len(page.chat) >= 2

\* C12: whenever the modal lists a leaderboard, the items carry the ranks
\* 1, 2, ... in the order shown, rank 1 has the highest total_points and
\* every later rank has total_points at most those of the rank before it
C12_LeaderboardRanked ==
    page.leaderboardContent.kind = "list"
        => LET items == page.leaderboardContent.items
           IN  /\ Len(items) > 0
               /\ \A i \in 1..Len(items) : items[i].rank = i
               /\ \A i \in 1..Len(items) : items[1].points >= items[i].points
               /\ \A i \in 2..Len(items) : items[i].points <= items[i - 1].points

\* three styles are listed, the last recorded of them first, two of them
\* with equal totals and one with a negative total
C12_Witness ==
    /\ page.leaderboardContent.kind = "list"
    /\ Len(page.leaderboardContent.items) = 3
    /\ page.leaderboardContent.items[1].points = page.leaderboardContent.items[2].points
    /\ page.leaderboardContent.items[2].points > page.leaderboardContent.items[3].points
    /\ page.leaderboardContent.items[3].points < 0
    /\ page.leaderboardContent.items[1].style = "robot"
    /\ page.leaderboardContent.items[3].style = "closer"

TypingIndicators(p) == { i \in 1..Len(p.chat) : p.chat[i].kind = "typing" }

\* C13: the chat never holds more than one typing indicator; right after a
\* typing event it holds exactly one, the new one, as its last child; right
\* after a message event it holds none and the bubble is its last child
C13_OneTypingIndicator ==
    /\ Cardinality(TypingIndicators(page)) <= 1
    /\ last.type = "typing"
          => /\ TypingIndicators(page) = {Len(page.chat)}
             /\ page.chat[Len(page.chat)].speaker = last.speaker
    /\ last.type = "message"
          => /\ TypingIndicators(page) = {}
             /\ page.chat[Len(page.chat)].kind \in {"message", "system", "alert"}

\* an indicator is shown below a bubble: typing events and a message were handled
C13_Witness ==
    /\ last.type = "typing"
    /\ last.speaker = "customer"
    /\ Len(page.chat) = MaxChat
    /\ page.chat[Len(page.chat)].kind = "typing"
    /\ page.chat[Len(page.chat) - 1].kind = "message"

\* the text holds the phrase at some offset
ContainsPhrase(text) ==
    \E k \in 1..Len(text) :
        /\ k + Len(FlaggedForFraud) - 1 <= Len(text)
        /\ SubSeq(text, k, k + Len(FlaggedForFraud) - 1) = FlaggedForFraud

\* C14: the message just handled put an alert bubble at the end of the chat
\* if and only if its speaker is 'system', its text contains 'flagged for
\* fraud' and the tracked fraud risk is at least 5; the bubble follows the
\* system bubble of that message and reports the tracked value; otherwise the
\* last child is the plain bubble of the message.  Every alert bubble in the
\* chat follows such a system bubble and reports a value of at least 5
C14_FraudAlertIff ==
    /\ last.type = "message"
          => LET n == Len(page.chat)
                 due == /\ last.speaker = "system"
                        /\ ContainsPhrase(last.text)
                        /\ IsNum(page.currentFraudRisk) /\ page.currentFraudRisk.n >= 5
             IN  /\ page.chat[n].kind = "alert" <=> due
                 /\ due => /\ page.chat[n].risk = page.currentFraudRisk
                            /\ n >= 2
                            /\ page.chat[n - 1] = [kind |-> "system", text |-> last.text]
                 /\ ~due => /\ page.chat[n].kind = (IF last.speaker = "system"
                                                      THEN "system" ELSE "message")
                             /\ page.chat[n].text = last.text
    /\ \A i \in 1..Len(page.chat) :
          page.chat[i].kind = "alert"
              => /\ i >= 2
                 /\ page.chat[i - 1].kind = "system"
                 /\ ContainsPhrase(page.chat[i - 1].text)
                 /\ IsNum(page.chat[i].risk) /\ page.chat[i].risk.n >= 5

\* an alert for the tracked value 5 was appended below the system bubble of
\* a text that holds the phrase inside a longer word
C14_Witness ==
    /\ last.type = "message"
    /\ last.text # TextFlagged
    /\ Len(page.chat) = 3
    /\ page.chat[1].kind = "divider"
    /\ page.chat[2] = [kind |-> "system", text |-> last.text]
    /\ page.chat[3] = [kind |-> "alert", risk |-> Num(5)]

\* C15: right after a dashboard_update the frustration warning is shown if
\* and only if sentiment.frustration is a number of at least 6 (an absent one
\* counts as 0) and, when shown, its class is 'critical' if and only if that
\* number is at least 8 and 'warning' otherwise; the top-level frustration
\* field of the update has no part in it
C15_FrustrationWarning ==
    last.type = "dashboard_update"
        => LET f == last.sentiment.frustration
               level == IF f.k = "num" THEN f.n ELSE 0
           IN  /\ page.frustrationWarning.display \in {"flex", "none"}
               /\ page.frustrationWarning.display = "flex" <=> level >= 6
               /\ level >= 6
                     => /\ page.frustrationWarning.class \in {"critical", "warning"}
                        /\ page.frustrationWarning.class = "critical" <=> level >= 8

\* an update with accumulated frustration 9 and sentiment.frustration 5 hid
\* a warning that an earlier update had made critical
C15_Witness ==
    /\ last.type = "dashboard_update"
    /\ last.frustration = Num(9)
    /\ last.sentiment.frustration = Num(5)
    /\ page.frustrationWarning = [display |-> "none", class |-> "critical"]

\* the order in which ties are broken
TieOrder == <<"head", "heart", "hand">>

\* C16: right after a dashboard_update exactly one motivation is highlighted;
\* its percentage is at least that of the other two and greater than that of
\* every category before it in the order head, heart, hand; the percentages
\* are the guess of the update or, without one, the default 33/34/33, which
\* highlights heart
C16_DominantMotivation ==
    last.type = "dashboard_update"
        => LET guess == last.confidence.motivation_guess
               pct == IF guess.present
                      THEN [m \in Motivations |-> guess[m].n]
                      ELSE [head |-> 33, heart |-> 34, hand |-> 33]
           IN  /\ Cardinality(page.dominant) = 1
               /\ page.dominant \subseteq Motivations
               /\ \A m \in Motivations : page.motivation[m].value = Num(pct[m])
               /\ \A i \in 1..3 :
                     TieOrder[i] \in page.dominant
                        => /\ \A j \in 1..3 : pct[TieOrder[i]] >= pct[TieOrder[j]]
                           /\ \A j \in 1..(i - 1) : pct[TieOrder[i]] > pct[TieOrder[j]]
               /\ ~guess.present => page.dominant = {"heart"}

\* a tie between heart and hand above head: heart is highlighted
C16_Witness ==
    /\ last.type = "dashboard_update"
    /\ last.confidence.motivation_guess = Guess(Num(20), Num(40), Num(40))
    /\ page.dominant = {"heart"}

\* C17 (as claimed): once the script has written the fraud-risk display, the
\* fraud risk tracked for the alert bubble equals the value displayed; right
\* after a call_start the display shows 2 and the tracked value is 2
C17_TrackedRiskIsDisplayed ==
    /\ page.fraudRiskValue # Html => page.currentFraudRisk = page.fraudRiskValue
    /\ last.type = "call_start" => page.currentFraudRisk.n = 2

\* the sockets that are connecting or open, the sockets that are not yet
\* closed, and the connection attempts that exist or are scheduled
OpenSockets == stale + (IF wsState \in {"CONNECTING", "OPEN"} THEN 1 ELSE 0)
LiveSockets == stale + (IF wsState # "CLOSED" THEN 1 ELSE 0)

\* C18 (as claimed): in every state exactly one of these exists: a socket
\* that is connecting or open, or a pending reconnect timer
C18_OneSocketOrTimer == OpenSockets + timers = 1

\* C18 (amended): in every state exactly one of these exists: a socket that
\* is not yet closed (connecting, open or closing), or a pending reconnect
\* timer; every step that closes the socket, a failed attempt included, adds
\* exactly one timer, and a timer goes away only by starting the next attempt
C18_OneLiveSocketOrTimer ==
    [][ /\ LiveSockets + timers = 1
        /\ LiveSockets' + timers' = 1
        /\ (wsState # "CLOSED" /\ wsState' = "CLOSED") => timers' = timers + 1
        /\ (timers' < timers)
              => /\ timers' = timers - 1
                 /\ wsState = "CLOSED" /\ wsState' = "CONNECTING"
      ]_vars

\* the client is connecting again, no timer left, after a connection on
\* which a session ran was closed
C18_Witness ==
    /\ wsState = "CONNECTING"
    /\ timers = 0
    /\ stale = 0
    /\ page.startDisabled
    /\ \E i \in 1..Len(page.chat) : page.chat[i].kind = "message"

====
